---- MODULE Spec2Model ----
(***************************************************************************)
(* Bowyer-Watson incremental Delaunay triangulation and its Voronoi dual,  *)
(* as implemented by BowyerWatson (src/Bowyer/bowyer_watson.py),           *)
(* BowyerWatsonDetailed (src/bowyer_watson_detailed_steps.py) and the two  *)
(* generator classes BowyerWatsonVisualizer                                *)
(* (src/Bowyer/bowyer_watson_visualizer.py, src/Bowyer/triangulacao.py).   *)
(*                                                                         *)
(* Numbers.  The code computes in binary floating point.  Every coordinate *)
(* the model handles is an integer or a half-integer, so coordinates are   *)
(* held as integers in units of 1/Unit.  The determinant D, the squared    *)
(* norms and the numerators of ux and uy are then integers that the code   *)
(* computes without rounding.  The circumcenter (ux, uy) is kept as the    *)
(* pair of numerators over the common denominator D, and a squared         *)
(* distance to it as a numerator over D*D.  A comparison                   *)
(* dist_sq < circumradius_sq whose two sides are exactly equal is decided  *)
(* in the code by the rounding of the division and of the squares: the     *)
(* model leaves its outcome open, but fixed for given operands (variable   *)
(* rounding), unless ux and uy are multiples of the coordinate unit, where *)
(* nothing is rounded.  Every other comparison is decided by its exact     *)
(* value.                                                                  *)
(***************************************************************************)
EXTENDS Integers, Sequences, FiniteSets, TLC

VARIABLES
    cls,            \* class of the instance, one of Classes
    points,         \* self.points
    triangulation,  \* self.triangulation
    voronoi_edges,  \* self.voronoi_edges
    metrics,        \* self.metrics
    super_vertices, \* local of run(): the set of the three super-triangle vertices
    idx,            \* number of points the loop of run() has inserted
    pc,             \* position of run(): "new", "loop", "cleanup", "voronoi", "done", "raised"
    raised,         \* name of the exception that ended run(), or "none"
    rounding,       \* outcomes of the exactly tied float comparisons met so far
    first,          \* outcome of the first instance once a second one is built, else <<>>
    heap,           \* the set objects that frames and generator locals refer to
    frames,         \* the frames the generator has yielded so far
    gen,            \* locals of the generator's run(): references into heap, loop iterator
    viewer          \* the pygame Visualizer: current_frame, running, pending events

vars == <<cls, points, triangulation, voronoi_edges, metrics, super_vertices,
          idx, pc, raised, rounding, first, heap, frames, gen, viewer>>

\* The variables of a generator and its viewer; run() of BowyerWatson and of
\* BowyerWatsonDetailed has no frames and no viewer.
viewing == << heap, frames, gen, viewer >>

(***************************************************************************)
(* Bounds and inputs                                                       *)
(***************************************************************************)
\* Longest input of pairwise distinct points.
MaxPoints == 4

\* The coordinate pairs the inputs are drawn from: a 9 x 2 rectangle (four
\* cocircular points), a collinear triple on its lower side and the sliver
\* (0,0), (5,1), (9,2).  An input is a sequence of pairwise distinct sites, or
\* such a sequence over RepeatSites with one of its items inserted once more.
Sites == { <<0, 0>>, <<1, 0>>, <<9, 0>>, <<0, 2>>, <<9, 2>>, <<5, 1>> }

RepeatSites == { <<1, 0>>, <<9, 0>>, <<0, 2>>, <<9, 2>> }

Distinct(s) == \A i, j \in 1..Len(s) : s[i] = s[j] => i = j

Repeats(s) == Len(s) - Cardinality({ s[i] : i \in 1..Len(s) })

\* The corners of the square (0,0), (2,0), (2,2), (0,2); an input is also any
\* order of the four corners.
SquareSites == { <<0, 0>>, <<2, 0>>, <<2, 2>>, <<0, 2>> }

\* Six points of one circle in counter-clockwise order, symmetric about the
\* centre of the circle, and that centre.  (The vertices of a regular hexagon
\* have irrational coordinates; these six keep its circle, its symmetry about
\* the centre and its six triangles around the centre.)  An input is also the
\* six points in this order with the centre inserted first, in the middle or
\* last.
HexagonSites == << <<5, 0>>, <<3, 4>>, <<-3, 4>>, <<-5, 0>>, <<-3, -4>>, <<3, -4>> >>

CentreSite == <<0, 0>>

CentrePlaces == { 1, 4, 7 }

InsertAt(s, k, x) == SubSeq(s, 1, k - 1) \o << x >> \o SubSeq(s, k, Len(s))

Inputs ==
    { s \in UNION { [1..n -> Sites] : n \in 0..MaxPoints } : Distinct(s) }
    \cup { s \in UNION { [1..n -> RepeatSites] : n \in 0..(MaxPoints + 1) } :
             Repeats(s) = 1 }
    \cup { s \in [1..Cardinality(SquareSites) -> SquareSites] : Distinct(s) }
    \cup { InsertAt(HexagonSites, k, CentreSite) : k \in CentrePlaces }

\* BowyerWatson (src/Bowyer/bowyer_watson.py), BowyerWatsonDetailed
\* (src/bowyer_watson_detailed_steps.py) and the two generator classes named
\* BowyerWatsonVisualizer, of src/Bowyer/bowyer_watson_visualizer.py and of
\* src/Bowyer/triangulacao.py.
Visualizer == "bowyer_watson_visualizer.BowyerWatsonVisualizer"

Triangulacao == "triangulacao.BowyerWatsonVisualizer"

Classes == { "BowyerWatson", "BowyerWatsonDetailed", Visualizer, Triangulacao }

(***************************************************************************)
(* Geometric primitives                                                    *)
(***************************************************************************)
Unit == 2

Point(x, y) == [x |-> x, y |-> y]

Edge(v1, v2) == [v1 |-> v1, v2 |-> v2]

Abs(a) == IF a < 0 THEN -a ELSE a

Max(a, b) == IF a > b THEN a ELSE b

\* Python's tuple order on Point: by x, then by y.
PointLess(a, b) == a.x < b.x \/ (a.x = b.x /\ a.y < b.y)

sorted2(a, b) == IF PointLess(b, a) THEN <<b, a>> ELSE <<a, b>>

sorted3(a, b, c) ==
    LET ab == sorted2(a, b)
    IN  IF PointLess(c, ab[1]) THEN <<c, ab[1], ab[2]>>
        ELSE IF PointLess(c, ab[2]) THEN <<ab[1], c, ab[2]>>
        ELSE <<ab[1], ab[2], c>>

\* A non-negative integer below 2^31 as three limbs, least significant first.
Limbs(a) == << a % 10000, (a \div 10000) % 10000, a \div 100000000 >>

\* a**2 + b**2 as five limbs to the base 10000, least significant first.
SumSq(a, b) ==
    LET u  == Limbs(Abs(a))
        v  == Limbs(Abs(b))
        c1 == u[1] * u[1] + v[1] * v[1]
        c2 == 2 * u[1] * u[2] + 2 * v[1] * v[2]
        c3 == 2 * u[1] * u[3] + u[2] * u[2] + 2 * v[1] * v[3] + v[2] * v[2]
        c4 == 2 * u[2] * u[3] + 2 * v[2] * v[3]
        c5 == u[3] * u[3] + v[3] * v[3]
        d2 == c2 + (c1 \div 10000)
        d3 == c3 + (d2 \div 10000)
        d4 == c4 + (d3 \div 10000)
        d5 == c5 + (d4 \div 10000)
    IN  << c1 % 10000, d2 % 10000, d3 % 10000, d4 % 10000, d5 >>

\* a < b for two five-limb numbers.
WideLess(a, b) ==
    \E k \in 1..5 : a[k] < b[k] /\ \A j \in (k + 1)..5 : a[j] = b[j]

\* None, and float('inf').
None == [x |-> 0, y |-> 0, den |-> 0]

Inf == << 0, 0, 0, 0, -1 >>

calculate_circumcircle(vertices) ==
    LET p1 == vertices[1]
        p2 == vertices[2]
        p3 == vertices[3]
        D  == 2 * (p1.x * (p2.y - p3.y) + p2.x * (p3.y - p1.y) + p3.x * (p1.y - p2.y))
        p1_sq == p1.x * p1.x + p1.y * p1.y
        p2_sq == p2.x * p2.x + p2.y * p2.y
        p3_sq == p3.x * p3.x + p3.y * p3.y
        ux == p1_sq * (p2.y - p3.y) + p2_sq * (p3.y - p1.y) + p3_sq * (p1.y - p2.y)
        uy == p1_sq * (p3.x - p2.x) + p2_sq * (p1.x - p3.x) + p3_sq * (p2.x - p1.x)
    IN  IF Abs(D) < 1      \* abs(D) < 1e-10, D being an integer
        THEN << None, Inf >>
        ELSE << [x |-> ux, y |-> uy, den |-> D],
                SumSq(p1.x * D - ux, p1.y * D - uy) >>

\* The vertices kept in the order given, without sorted(): the identity of
\* a triangle then depends on the order of its vertices.
unsorted_triangle(v1, v2, v3) ==
    LET vertices == << v1, v2, v3 >>
        cc == calculate_circumcircle(vertices)
    IN  [vertices |-> vertices, circumcenter |-> cc[1], circumradius_sq |-> cc[2]]

Triangle(v1, v2, v3) ==
    LET vertices == sorted3(v1, v2, v3)
        cc == calculate_circumcircle(vertices)
    IN  [vertices |-> vertices, circumcenter |-> cc[1], circumradius_sq |-> cc[2]]

\* dist_sq of point_in_circumcircle, over the square of the denominator.
dist_sq(t, point) ==
    SumSq(point.x * t.circumcenter.den - t.circumcenter.x,
          point.y * t.circumcenter.den - t.circumcenter.y)

\* ux and uy are multiples of the unit of the coordinates.  The divisions by
\* D, the differences, the squares and the sums of point_in_circumcircle and
\* of radius_sq are then computed without rounding.
ExactCenter(t) ==
    /\ Abs(t.circumcenter.x) % Abs(t.circumcenter.den) = 0
    /\ Abs(t.circumcenter.y) % Abs(t.circumcenter.den) = 0

\* The comparison dist_sq < circumradius_sq is a tie: both sides are equal
\* as real numbers, and the float expressions that compute them round and
\* differ (for vertices[0] they are the same expression, which gives equal
\* floats; with an exact center both are computed exactly and are equal).
Tied(t, point) ==
    /\ t.circumcenter # None
    /\ point # t.vertices[1]
    /\ ~ ExactCenter(t)
    /\ dist_sq(t, point) = t.circumradius_sq

\* A test with > in place of <.
point_outside_circumcircle(t, point, rnd) ==
    IF t.circumcenter = None
    THEN FALSE
    ELSE WideLess(t.circumradius_sq, dist_sq(t, point))

\* rnd: the outcome of the comparison where it is a tie.
point_in_circumcircle(t, point, rnd) ==
    IF t.circumcenter = None
    THEN FALSE
    ELSE IF Tied(t, point)
         THEN rnd
         ELSE WideLess(dist_sq(t, point), t.circumradius_sq)

(***************************************************************************)
(* Sets, edges and the super-triangle                                      *)
(***************************************************************************)
\* Python's tuple order on the vertices of two triangles.
VerticesLess(a, b) ==
    \E k \in 1..3 : PointLess(a[k], b[k]) /\ \A j \in 1..(k - 1) : a[j] = b[j]

\* The order in which a loop visits a set of triangles.  CPython fixes it by
\* the hashes of the elements; the model visits them by increasing vertices.
RECURSIVE iteration(_)
iteration(S) ==
    IF S = {}
    THEN << >>
    ELSE LET t == CHOOSE m \in S : \A u \in S : u = m \/ VerticesLess(m.vertices, u.vertices)
         IN  << t >> \o iteration(S \ {t})

\* Edge(*tuple(sorted((v1, v2)))) for i in range(3).
\* The edges as (p1, p2), (p2, p3), (p3, p1) without tuple(sorted(...)): an
\* edge shared by two triangles may then be two different keys.
unsorted_edges(t) ==
    [ i \in 1..3 |-> Edge(t.vertices[i], t.vertices[(i % 3) + 1]) ]

triangle_edges(t) ==
    [ i \in 1..3 |->
        LET s == sorted2(t.vertices[i], t.vertices[(i % 3) + 1])
        IN  Edge(s[1], s[2]) ]

\* The three toggles of one bad triangle, from edge number i on.
RECURSIVE toggle_edges(_, _, _)
toggle_edges(boundary, edges, i) ==
    IF i > 3
    THEN boundary
    ELSE toggle_edges(IF edges[i] \in boundary
                      THEN boundary \ {edges[i]}
                      ELSE boundary \cup {edges[i]},
                      edges, i + 1)

\* A loop that ends after its first bad triangle.
toggle_first_triangle(boundary, bad) ==
    IF bad = << >>
    THEN boundary
    ELSE toggle_edges(boundary, triangle_edges(Head(bad)), 1)

\* The loop over bad_triangles that builds polygon_boundary.
RECURSIVE toggle_triangles(_, _)
toggle_triangles(boundary, bad) ==
    IF bad = << >>
    THEN boundary
    ELSE toggle_triangles(toggle_edges(boundary, triangle_edges(Head(bad)), 1), Tail(bad))

\* Every edge of a bad triangle, shared edges included.
all_edges(bad_triangles) ==
    UNION { { triangle_edges(t)[i] : i \in 1..3 } : t \in bad_triangles }

polygon_boundary(bad_triangles) == toggle_triangles({}, iteration(bad_triangles))

RECURSIVE SeqMin(_)
SeqMin(s) ==
    IF Len(s) = 1 THEN s[1]
    ELSE LET m == SeqMin(Tail(s)) IN IF s[1] < m THEN s[1] ELSE m

RECURSIVE SeqMax(_)
SeqMax(s) ==
    IF Len(s) = 1 THEN s[1]
    ELSE LET m == SeqMax(Tail(s)) IN IF s[1] > m THEN s[1] ELSE m

\* The factors of delta_max: 20 and 10 in BowyerWatson, 2 and 1 in
\* BowyerWatsonDetailed.
WideFactor(c) == IF c = "BowyerWatson" THEN 20 ELSE 2

LowFactor(c) == IF c = "BowyerWatson" THEN 10 ELSE 1

\* The three vertices v1, v2, v3 of the super-triangle of a non-empty input.
create_super_triangle(pts, c) ==
    LET xs == [ i \in 1..Len(pts) |-> pts[i].x ]
        ys == [ i \in 1..Len(pts) |-> pts[i].y ]
        min_x == SeqMin(xs)
        max_x == SeqMax(xs)
        min_y == SeqMin(ys)
        max_y == SeqMax(ys)
        dx == max_x - min_x
        dy == max_y - min_y
        delta_max == Max(dx, dy)
        mid_x == (min_x + max_x) \div 2
        mid_y == (min_y + max_y) \div 2
    IN  << Point(mid_x - WideFactor(c) * delta_max, mid_y - LowFactor(c) * delta_max),
           Point(mid_x + WideFactor(c) * delta_max, mid_y - LowFactor(c) * delta_max),
           Point(mid_x, mid_y + WideFactor(c) * delta_max) >>

(***************************************************************************)
(* The Voronoi dual                                                        *)
(***************************************************************************)
\* edge_to_triangles after one more (edge, tri): a dict, kept as the
\* sequence of its items in insertion order.
\* (overwrite_incidence: the list of an edge is replaced, not appended to.)
overwrite_incidence(dict, edge, tri) ==
    IF \E k \in 1..Len(dict) : dict[k].edge = edge
    THEN [ k \in 1..Len(dict) |->
             IF dict[k].edge = edge
             THEN [ edge |-> edge, triangles |-> << tri >> ]
             ELSE dict[k] ]
    ELSE Append(dict, [ edge |-> edge, triangles |-> << tri >> ])

add_incidence(dict, edge, tri) ==
    IF \E k \in 1..Len(dict) : dict[k].edge = edge
    THEN [ k \in 1..Len(dict) |->
             IF dict[k].edge = edge
             THEN [ edge |-> edge, triangles |-> Append(dict[k].triangles, tri) ]
             ELSE dict[k] ]
    ELSE Append(dict, [ edge |-> edge, triangles |-> << tri >> ])

RECURSIVE map_edges(_, _)
map_edges(dict, tris) ==
    IF tris = << >>
    THEN dict
    ELSE LET t == Head(tris)
             e == triangle_edges(t)
         IN  map_edges(add_incidence(add_incidence(add_incidence(dict, e[1], t), e[2], t), e[3], t),
                       Tail(tris))

edge_to_triangles(tris) == map_edges(<< >>, iteration(tris))

\* An entry for every edge, whatever the number of its triangles.
emit_every_edge(dict) ==
    [ k \in 1..Len(dict) |->
        << dict[k].triangles[1].circumcenter,
           dict[k].triangles[Len(dict[k].triangles)].circumcenter >> ]

\* The (p1, p2) appended for the items of edge_to_triangles, in order.
RECURSIVE emit_edges(_)
emit_edges(dict) ==
    IF dict = << >>
    THEN << >>
    ELSE LET triangles == Head(dict).triangles
             emit == /\ Len(triangles) = 2
                     /\ triangles[1].circumcenter # None
                     /\ triangles[2].circumcenter # None
         IN  (IF emit
              THEN << << triangles[1].circumcenter, triangles[2].circumcenter >> >>
              ELSE << >>) \o emit_edges(Tail(dict))

derive_voronoi_diagram(tris, edges) == edges \o emit_edges(edge_to_triangles(tris))

(***************************************************************************)
(* The instance and run()                                                  *)
(***************************************************************************)
NoMetrics ==
    [ num_sites |-> 0, delaunay_triangles |-> 0,
      voronoi_vertices |-> 0, voronoi_edges_created |-> 0 ]

\* self.points of an instance built from the coordinate pairs in p.
init_points(p) == [ i \in 1..Len(p) |-> Point(Unit * p[i][1], Unit * p[i][2]) ]

\* Only BowyerWatson has metrics and voronoi_edges: in the other classes the
\* two variables keep these values.
init_metrics(c, p) ==
    IF c = "BowyerWatson" THEN [ NoMetrics EXCEPT !.num_sites = Len(p) ] ELSE NoMetrics

\* No generator and no viewer.
NoLocals ==
    [ scan |-> << >>, bad_triangles |-> 0, polygon_boundary |-> 0,
      voronoi_vertices |-> 0, voronoi_edges |-> 0 ]

NoViewer == [ current_frame |-> 0, running |-> FALSE, at |-> "none", events |-> << >> ]

Init ==
    \E p \in Inputs, c \in Classes :
        /\ cls = c
        /\ points = init_points(p)
        /\ triangulation = {}
        /\ voronoi_edges = << >>
        /\ metrics = init_metrics(c, p)
        /\ super_vertices = {}
        /\ idx = 0
        /\ pc = "new"
        /\ raised = "none"
        /\ rounding = {}
        /\ first = << >>
        /\ heap = << >>
        /\ frames = << >>
        /\ gen = NoLocals
        /\ viewer = NoViewer

\* run() up to the loop.  min() of an empty sequence raises ValueError.
RunStart ==
    /\ pc = "new"
    /\ IF points = << >>
       THEN /\ pc' = "raised"
            /\ raised' = "ValueError"
            /\ UNCHANGED << triangulation, super_vertices >>
       ELSE LET v == create_super_triangle(points, cls)
            IN  /\ triangulation' = triangulation \cup { Triangle(v[1], v[2], v[3]) }
                /\ super_vertices' = { v[1], v[2], v[3] }
                /\ pc' = "loop"
                /\ UNCHANGED raised
    /\ UNCHANGED << cls, points, voronoi_edges, metrics, idx, rounding, first >>
    /\ UNCHANGED viewing

\* The triangles of T whose comparison with point is a tie.
Ties(T, point) == { t \in T : Tied(t, point) }

\* X, the tied triangles found inside, agrees with the outcomes met so far.
Consistent(T, point, X) ==
    \A t \in Ties(T, point) : \A r \in rounding :
        (r.vertices = t.vertices /\ r.point = point) => (r.inside = (t \in X))

bad_triangles(T, point, X) == { t \in T : point_in_circumcircle(t, point, t \in X) }

\* The triangulation after one pass of the loop body.
insert_point(T, point, X) ==
    LET bad == bad_triangles(T, point, X)
        boundary == polygon_boundary(bad)
    IN  (T \ bad) \cup { Triangle(edge.v1, edge.v2, point) : edge \in boundary }

\* The loop of triangulacao.py reads t.circumcenter.x of every triangle
\* without testing the circumcenter for None: AttributeError.
reads_none(c, T) == c = Triangulacao /\ \E t \in T : t.circumcenter = None

\* One pass of "for point in self.points".
InsertPoint ==
    /\ pc = "loop"
    /\ idx < Len(points)
    /\ IF reads_none(cls, triangulation)
       THEN /\ pc' = "raised"
            /\ raised' = "AttributeError"
            /\ UNCHANGED << triangulation, rounding, idx >>
       ELSE /\ LET point == points[idx + 1]
               IN  \E X \in SUBSET Ties(triangulation, point) :
                       /\ Consistent(triangulation, point, X)
                       /\ triangulation' = insert_point(triangulation, point, X)
                       /\ rounding' = rounding \cup
                            { [ vertices |-> t.vertices, point |-> point,
                                inside |-> (t \in X) ] :
                                t \in Ties(triangulation, point) }
            /\ idx' = idx + 1
            /\ UNCHANGED << pc, raised >>
    /\ UNCHANGED << cls, points, voronoi_edges, metrics, super_vertices, first >>
    /\ UNCHANGED viewing

\* The loop is over.
LoopEnd ==
    /\ pc = "loop"
    /\ idx = Len(points)
    /\ pc' = "cleanup"
    /\ UNCHANGED << cls, points, triangulation, voronoi_edges, metrics, super_vertices,
                    idx, raised, rounding, first >>
    /\ UNCHANGED viewing

\* A cleanup that looks at the first vertex of a triangle only.
cleanup_first_vertex(T, sv) == { tri \in T : tri.vertices[1] \notin sv }

cleanup(T, sv) == { tri \in T : ~ \E k \in 1..3 : tri.vertices[k] \in sv }

\* Step 3 of run(); the end of BowyerWatsonDetailed.run() and of the
\* triangulation of the generators (the Voronoi edges that the generator of
\* bowyer_watson_visualizer.py derives afterwards are a local set that only
\* goes into its frames).
Cleanup ==
    /\ pc = "cleanup"
    /\ triangulation' = cleanup(triangulation, super_vertices)
    /\ pc' = IF cls = "BowyerWatson" THEN "voronoi" ELSE "done"
    /\ UNCHANGED << cls, points, voronoi_edges, metrics, super_vertices, idx, raised,
                    rounding, first >>
    /\ UNCHANGED viewing

\* Step 4 of BowyerWatson.run() and the metrics.
DeriveVoronoi ==
    /\ pc = "voronoi"
    /\ voronoi_edges' = derive_voronoi_diagram(triangulation, voronoi_edges)
    /\ metrics' = [ metrics EXCEPT
                      !.delaunay_triangles = Cardinality(triangulation),
                      !.voronoi_vertices = Cardinality(triangulation),
                      !.voronoi_edges_created = Len(voronoi_edges') ]
    /\ pc' = "done"
    /\ UNCHANGED << cls, points, triangulation, super_vertices, idx, raised, rounding, first >>
    /\ UNCHANGED viewing

\* s with the items at i and i + 1 exchanged.
Swap(s, i) ==
    [ k \in 1..Len(s) |-> IF k = i THEN s[i + 1] ELSE IF k = i + 1 THEN s[i] ELSE s[k] ]

\* The inputs that are also run in another order and by BowyerWatsonDetailed.
Permutable(s) == Distinct(s) /\ Len(s) <= MaxPoints

\* The classes a second instance is built of, after a run of class c.
Compared(c) ==
    IF c = "BowyerWatson" THEN { "BowyerWatson", "BowyerWatsonDetailed" }
    ELSE IF c = "BowyerWatsonDetailed" THEN { Visualizer, Triangulacao }
    ELSE { }

\* A second instance that shares the voronoi_edges list of the first, as a
\* list held in a class attribute would be.
SharedListInstance ==
    /\ pc \in { "done", "raised" }
    /\ first = << >>
    /\ Compared(cls) # { }
    /\ first' = << [ cls |-> cls, points |-> points, triangulation |-> triangulation,
                     voronoi_edges |-> voronoi_edges, metrics |-> metrics,
                     raised |-> raised ] >>
    /\ \E c \in Compared(cls), p \in { points } \cup { Swap(points, i) : i \in 1..(Len(points) - 1) } :
           /\ p = points \/ c = cls
           /\ (p = points /\ c \in { cls, Visualizer, Triangulacao }) \/ Permutable(points)
           /\ cls' = c
           /\ points' = p
           /\ metrics' = IF c = "BowyerWatson"
                         THEN [ NoMetrics EXCEPT !.num_sites = Len(p) ]
                         ELSE NoMetrics
    /\ triangulation' = {}
    /\ super_vertices' = {}
    /\ idx' = 0
    /\ pc' = "new"
    /\ raised' = "none"
    /\ UNCHANGED << voronoi_edges, rounding >>
    /\ UNCHANGED viewing

\* The run of an instance is over; a fresh instance is built.  After a
\* BowyerWatson: from the same sequence and, when the points are pairwise
\* distinct and at most MaxPoints, also a BowyerWatsonDetailed or from the
\* sequence with two neighbours exchanged.  After a BowyerWatsonDetailed: a generator class,
\* from the same sequence.  The outcome of the first instance is kept for
\* comparison.
SecondInstance ==
    /\ pc \in { "done", "raised" }
    /\ first = << >>
    /\ Compared(cls) # { }
    /\ first' = << [ cls |-> cls, points |-> points, triangulation |-> triangulation,
                     voronoi_edges |-> voronoi_edges, metrics |-> metrics,
                     raised |-> raised ] >>
    /\ \E c \in Compared(cls), p \in { points } \cup { Swap(points, i) : i \in 1..(Len(points) - 1) } :
           /\ p = points \/ c = cls
           /\ (p = points /\ c \in { cls, Visualizer, Triangulacao }) \/ Permutable(points)
           /\ cls' = c
           /\ points' = p
           /\ metrics' = IF c = "BowyerWatson"
                         THEN [ NoMetrics EXCEPT !.num_sites = Len(p) ]
                         ELSE NoMetrics
    /\ triangulation' = {}
    /\ voronoi_edges' = << >>
    /\ super_vertices' = {}
    /\ idx' = 0
    /\ pc' = "new"
    /\ raised' = "none"
    /\ UNCHANGED rounding
    /\ UNCHANGED viewing

Next == RunStart \/ InsertPoint \/ LoopEnd \/ Cleanup \/ DeriveVoronoi \/ SecondInstance

Spec == Init /\ [][Next]_vars

\* run() is called a second time on the same BowyerWatson instance.  run()
\* assigns none of the attributes before it uses them: the triangulation,
\* voronoi_edges and metrics of the first call are what the second call
\* starts from.  The outcome of the first call is kept for comparison.
RunAgain ==
    /\ pc = "done"
    /\ cls = "BowyerWatson"
    /\ first = << >>
    /\ first' = << [ cls |-> cls, points |-> points, triangulation |-> triangulation,
                     voronoi_edges |-> voronoi_edges, metrics |-> metrics,
                     raised |-> raised ] >>
    /\ idx' = 0
    /\ pc' = "new"
    /\ UNCHANGED << cls, points, triangulation, voronoi_edges, metrics, super_vertices,
                    raised, rounding >>
    /\ UNCHANGED viewing

\* An instance and two calls of its run().
RerunNext == RunStart \/ InsertPoint \/ LoopEnd \/ Cleanup \/ DeriveVoronoi \/ RunAgain

RerunSpec == Init /\ [][RerunNext]_vars

(***************************************************************************)
(* The generators and their viewers                                        *)
(*                                                                         *)
(* run() of a BowyerWatsonVisualizer is a generator: a call of next()      *)
(* runs it from the yield where it is suspended to the next yield.  pc is  *)
(* the status of the frame it is suspended at (written without accents),   *)
(* "exhausted" after StopIteration and "raised" after an exception.  A     *)
(* frame holds references to set objects: heap[ref] is the set, and the    *)
(* reference 0 is a set() made for that frame alone, which stays empty.    *)
(***************************************************************************)
\* Longest list of events one call of pygame.event.get() returns.
MaxEvents == 2

\* The events handle_events tells apart: QUIT, and KEYDOWN of three keys.
Events == { "QUIT", "K_ESCAPE", "K_SPACE", "K_OTHER" }

Batches == UNION { [ 1..n -> Events ] : n \in 0..MaxEvents }

\* The inputs of the viewers: one point, two points, a repeated point, one
\* triangle, two triangles, and the square (two triangles with one
\* circumcenter).
ViewerInputs ==
    { << <<0, 0>> >>,
      << <<0, 0>>, <<1, 0>> >>,
      << <<1, 0>>, <<1, 0>>, <<9, 0>> >>,
      << <<0, 0>>, <<1, 0>>, <<0, 2>> >>,
      << <<0, 0>>, <<1, 0>>, <<0, 2>>, <<9, 2>> >>,
      << <<0, 0>>, <<2, 0>>, <<2, 2>>, <<0, 2>> >> }

Deref(h, ref) == IF ref = 0 THEN {} ELSE h[ref]

RECURSIVE Gcd(_, _)
Gcd(a, b) == IF b = 0 THEN a ELSE Gcd(b, a % b)

\* The Point that t.circumcenter is: two circumcenters that are the same
\* point are one element of a set.
circumcenter_point(c) ==
    LET g == Gcd(Gcd(Abs(c.x), Abs(c.y)), Abs(c.den))
        s == IF c.den < 0 THEN -1 ELSE 1
    IN  [ x |-> (s * c.x) \div g, y |-> (s * c.y) \div g, den |-> Abs(c.den) \div g ]

\* _create_frame of triangulacao.py: the triangulation is copied; of an
\* argument "bad_triangles or set()" keeps the set object that was passed
\* when it is not empty.  The result is the heap with the copy and the frame.
create_frame(h, T, status, active_point, bad, boundary) ==
    << Append(h, T),
       [ status |-> status,
         active_point |-> active_point,
         triangulation |-> Len(h) + 1,
         bad_triangles |-> IF Deref(h, bad) = {} THEN 0 ELSE bad,
         polygon_boundary |-> IF Deref(h, boundary) = {} THEN 0 ELSE boundary,
         voronoi_vertices |-> 0,
         voronoi_edges |-> 0 ] >>

\* _create_frame of bowyer_watson_visualizer.py: the triangulation is
\* copied, and frame.update(kwargs) stores the set objects that were passed
\* (0: the keyword was not passed).
create_frame_kwargs(h, T, status, vertices, edges) ==
    << Append(h, T),
       [ status |-> status,
         active_point |-> 0,
         triangulation |-> Len(h) + 1,
         bad_triangles |-> 0,
         polygon_boundary |-> 0,
         voronoi_vertices |-> vertices,
         voronoi_edges |-> edges ] >>

\* yield frame, of the pair made by _create_frame.
yield(made, status) ==
    /\ heap' = made[1]
    /\ frames' = Append(frames, made[2])
    /\ pc' = status

\* The state after Visualizer(points): __init__ builds the generator and
\* takes its first frame, the one with the super-triangle.
ViewerInit ==
    \E p \in ViewerInputs, c \in { Visualizer, Triangulacao } :
        LET pts == init_points(p)
            v == create_super_triangle(pts, c)
            st == Triangle(v[1], v[2], v[3])
            made == IF c = Triangulacao
                    THEN create_frame(<< >>, { st }, "Inicio", 0, 0, 0)
                    ELSE create_frame_kwargs(<< >>, { st }, "Inicio", 0, 0)
        IN  /\ cls = c
            /\ points = pts
            /\ triangulation = { st }
            /\ voronoi_edges = << >>
            /\ metrics = NoMetrics
            /\ super_vertices = { v[1], v[2], v[3] }
            /\ idx = 0
            /\ pc = "Inicio"
            /\ raised = "none"
            /\ rounding = {}
            /\ first = << >>
            /\ heap = made[1]
            /\ frames = << made[2] >>
            /\ gen = NoLocals
            /\ viewer = [ current_frame |-> 1, running |-> TRUE, at |-> "loop",
                          events |-> << >> ]

(* The generator of triangulacao.py *)

\* The loop is between two points, or before the first.
BetweenPoints == pc \in { "Inicio", "Retriangulando" }

\* The scan "for t in self.triangulation" is under way.
Scanning == pc \in { "Encontrando triangulos ruins", "Verificando circuncirculos" }

\* Top of the loop body: bad_triangles = set(), and the first frame of the
\* point.
add_point ==
    /\ cls = Triangulacao
    /\ BetweenPoints
    /\ idx < Len(points)
    /\ gen' = [ gen EXCEPT !.bad_triangles = Len(heap) + 1 ]
    /\ yield(create_frame(Append(heap, {}), triangulation, "Adicionando Ponto",
                          idx + 1, 0, 0),
             "Adicionando Ponto")
    /\ UNCHANGED << triangulation, idx, raised, rounding >>

find_bad ==
    /\ cls = Triangulacao
    /\ pc = "Adicionando Ponto"
    /\ gen' = [ gen EXCEPT !.scan = iteration(triangulation) ]
    /\ yield(create_frame(heap, triangulation, "Encontrando triangulos ruins",
                          idx + 1, 0, 0),
             "Encontrando triangulos ruins")
    /\ UNCHANGED << triangulation, idx, raised, rounding >>

\* One pass of the scan: t.circumcenter.x of a triangle without
\* circumcenter raises AttributeError; a bad triangle is added to the set
\* bad_triangles, and the frame gets that set.
scan_triangle ==
    /\ cls = Triangulacao
    /\ Scanning
    /\ gen.scan # << >>
    /\ LET t == Head(gen.scan)
           point == points[idx + 1]
       IN  IF t.circumcenter = None
           THEN /\ pc' = "raised"
                /\ raised' = "AttributeError"
                /\ UNCHANGED << heap, frames, gen, rounding >>
           ELSE \E X \in SUBSET Ties({ t }, point) :
                    /\ Consistent({ t }, point, X)
                    /\ rounding' = rounding \cup
                         { [ vertices |-> u.vertices, point |-> point,
                             inside |-> (u \in X) ] : u \in Ties({ t }, point) }
                    /\ LET is_bad == point_in_circumcircle(t, point, t \in X)
                           h == IF is_bad
                                THEN [ heap EXCEPT ![gen.bad_triangles] = @ \cup { t } ]
                                ELSE heap
                       IN  yield(create_frame(h, triangulation, "Verificando circuncirculos",
                                              idx + 1, gen.bad_triangles, 0),
                                 "Verificando circuncirculos")
                    /\ gen' = [ gen EXCEPT !.scan = Tail(gen.scan) ]
                    /\ UNCHANGED raised
    /\ UNCHANGED << triangulation, idx >>

bad_identified ==
    /\ cls = Triangulacao
    /\ Scanning
    /\ gen.scan = << >>
    /\ yield(create_frame(heap, triangulation, "Triangulos ruins identificados",
                          idx + 1, gen.bad_triangles, 0),
             "Triangulos ruins identificados")
    /\ UNCHANGED << triangulation, idx, raised, rounding, gen >>

\* polygon_boundary = set() and the toggle of the edges.
form_polygon ==
    /\ cls = Triangulacao
    /\ pc = "Triangulos ruins identificados"
    /\ gen' = [ gen EXCEPT !.polygon_boundary = Len(heap) + 1 ]
    /\ yield(create_frame(Append(heap, polygon_boundary(heap[gen.bad_triangles])),
                          triangulation, "Formando o poligono", idx + 1,
                          gen.bad_triangles, Len(heap) + 1),
             "Formando o poligono")
    /\ UNCHANGED << triangulation, idx, raised, rounding >>

\* self.triangulation -= bad_triangles
remove_bad ==
    /\ cls = Triangulacao
    /\ pc = "Formando o poligono"
    /\ triangulation' = triangulation \ heap[gen.bad_triangles]
    /\ yield(create_frame(heap, triangulation', "Removendo triangulos", idx + 1,
                          0, gen.polygon_boundary),
             "Removendo triangulos")
    /\ UNCHANGED << idx, raised, rounding, gen >>

\* The new triangles, and the end of the loop body.
retriangulate ==
    /\ cls = Triangulacao
    /\ pc = "Removendo triangulos"
    /\ triangulation' = triangulation \cup
         { Triangle(edge.v1, edge.v2, points[idx + 1]) :
             edge \in heap[gen.polygon_boundary] }
    /\ yield(create_frame(heap, triangulation', "Retriangulando", idx + 1,
                          0, gen.polygon_boundary),
             "Retriangulando")
    /\ idx' = idx + 1
    /\ UNCHANGED << raised, rounding, gen >>

\* A cleanup that does not wait for the last point.
clean_early ==
    /\ cls = Triangulacao
    /\ BetweenPoints
    /\ triangulation' = cleanup(triangulation, super_vertices)
    /\ yield(create_frame(heap, triangulation', "Limpando super-triangulo", 0, 0, 0),
             "Limpando super-triangulo")
    /\ UNCHANGED << idx, raised, rounding, gen >>

\* After the loop: the triangles on a super-triangle vertex are dropped.
clean ==
    /\ cls = Triangulacao
    /\ BetweenPoints
    /\ idx = Len(points)
    /\ triangulation' = cleanup(triangulation, super_vertices)
    /\ yield(create_frame(heap, triangulation', "Limpando super-triangulo", 0, 0, 0),
             "Limpando super-triangulo")
    /\ UNCHANGED << idx, raised, rounding, gen >>

concluded ==
    /\ cls = Triangulacao
    /\ pc = "Limpando super-triangulo"
    /\ yield(create_frame(heap, triangulation, "Concluido!", 0, 0, 0), "Concluido!")
    /\ UNCHANGED << triangulation, idx, raised, rounding, gen >>

(* The generator of bowyer_watson_visualizer.py *)

\* X agrees with the outcomes R of the tied comparisons met so far.
consistent_with(R, T, point, X) ==
    \A t \in Ties(T, point) : \A r \in R :
        (r.vertices = t.vertices /\ r.point = point) => (r.inside = (t \in X))

\* The loop "for i, point in enumerate(self.points)", which has no yield:
\* the triangulations and outcomes << T, R >> it may end with, from the
\* pass of points[k + 1] on.
RECURSIVE insert_points(_, _, _)
insert_points(T, R, k) ==
    IF k = Len(points)
    THEN { << T, R >> }
    ELSE LET point == points[k + 1]
         IN  UNION { insert_points(insert_point(T, point, X),
                                   R \cup { [ vertices |-> t.vertices, point |-> point,
                                              inside |-> (t \in X) ] :
                                            t \in Ties(T, point) },
                                   k + 1) :
                     X \in { Y \in SUBSET Ties(T, point) :
                               consistent_with(R, T, point, Y) } }

almost_ready ==
    /\ cls = Visualizer
    /\ pc = "Inicio"
    /\ \E o \in insert_points(triangulation, rounding, 0) :
         /\ triangulation' = o[1]
         /\ rounding' = o[2]
    /\ idx' = Len(points)
    /\ yield(create_frame_kwargs(heap, triangulation', "Triangulacao Quase Pronta", 0, 0),
             "Triangulacao Quase Pronta")
    /\ UNCHANGED << raised, gen >>

delaunay_done ==
    /\ cls = Visualizer
    /\ pc = "Triangulacao Quase Pronta"
    /\ triangulation' = cleanup(triangulation, super_vertices)
    /\ yield(create_frame_kwargs(heap, triangulation', "Delaunay Concluido", 0, 0),
             "Delaunay Concluido")
    /\ UNCHANGED << idx, raised, rounding, gen >>

start_voronoi ==
    /\ cls = Visualizer
    /\ pc = "Delaunay Concluido"
    /\ yield(create_frame_kwargs(heap, triangulation, "Iniciando Geracao Voronoi", 0, 0),
             "Iniciando Geracao Voronoi")
    /\ UNCHANGED << triangulation, idx, raised, rounding, gen >>

\* The triangles "for t in self.triangulation" yields a frame for.
RECURSIVE with_circumcenter(_)
with_circumcenter(tris) ==
    IF tris = << >>
    THEN << >>
    ELSE (IF Head(tris).circumcenter # None THEN << Head(tris) >> ELSE << >>)
            \o with_circumcenter(Tail(tris))

\* voronoi_vertices = set(), and the frame before the loop.
find_vertices ==
    /\ cls = Visualizer
    /\ pc = "Iniciando Geracao Voronoi"
    /\ gen' = [ gen EXCEPT !.voronoi_vertices = Len(heap) + 1,
                           !.scan = with_circumcenter(iteration(triangulation)) ]
    /\ yield(create_frame_kwargs(Append(heap, {}), triangulation,
                                 "Encontrando Vertices Voronoi", 0, 0),
             "Encontrando Vertices Voronoi")
    /\ UNCHANGED << triangulation, idx, raised, rounding >>

MappingVertices ==
    pc \in { "Encontrando Vertices Voronoi", "Mapeando Triangulo -> Vertice Voronoi" }

\* voronoi_vertices.add(t.circumcenter), and a frame with that set.
map_vertex ==
    /\ cls = Visualizer
    /\ MappingVertices
    /\ gen.scan # << >>
    /\ yield(create_frame_kwargs(
                 [ heap EXCEPT ![gen.voronoi_vertices] =
                     @ \cup { circumcenter_point(Head(gen.scan).circumcenter) } ],
                 triangulation, "Mapeando Triangulo -> Vertice Voronoi",
                 gen.voronoi_vertices, 0),
             "Mapeando Triangulo -> Vertice Voronoi")
    /\ gen' = [ gen EXCEPT !.scan = Tail(gen.scan) ]
    /\ UNCHANGED << triangulation, idx, raised, rounding >>

\* edge_to_triangles, and the frame before the loop over its items; the
\* loop yields for the items that emit_edges keeps.
find_edges ==
    /\ cls = Visualizer
    /\ MappingVertices
    /\ gen.scan = << >>
    /\ gen' = [ gen EXCEPT !.scan = emit_edges(edge_to_triangles(triangulation)) ]
    /\ yield(create_frame_kwargs(heap, triangulation, "Encontrando Arestas Voronoi",
                                 gen.voronoi_vertices, 0),
             "Encontrando Arestas Voronoi")
    /\ UNCHANGED << triangulation, idx, raised, rounding >>

ConnectingVertices ==
    pc \in { "Encontrando Arestas Voronoi", "Conectando Vertices Voronoi" }

\* The heap once "voronoi_edges = set()" has run: it runs when the
\* generator leaves the frame "Encontrando Arestas Voronoi".
with_voronoi_edges(h) == IF pc = "Encontrando Arestas Voronoi" THEN Append(h, {}) ELSE h

voronoi_edges_ref == IF pc = "Encontrando Arestas Voronoi" THEN Len(heap) + 1 ELSE gen.voronoi_edges

\* voronoi_edges.add(Edge(t1.circumcenter, t2.circumcenter)), and a frame
\* with that set.
connect_vertices ==
    /\ cls = Visualizer
    /\ ConnectingVertices
    /\ gen.scan # << >>
    /\ yield(create_frame_kwargs(
                 [ with_voronoi_edges(heap) EXCEPT ![voronoi_edges_ref] =
                     @ \cup { Edge(circumcenter_point(Head(gen.scan)[1]),
                                   circumcenter_point(Head(gen.scan)[2])) } ],
                 triangulation, "Conectando Vertices Voronoi",
                 gen.voronoi_vertices, voronoi_edges_ref),
             "Conectando Vertices Voronoi")
    /\ gen' = [ gen EXCEPT !.scan = Tail(gen.scan), !.voronoi_edges = voronoi_edges_ref ]
    /\ UNCHANGED << triangulation, idx, raised, rounding >>

final_result ==
    /\ cls = Visualizer
    /\ ConnectingVertices
    /\ gen.scan = << >>
    /\ yield(create_frame_kwargs(with_voronoi_edges(heap), triangulation,
                                 "Resultado Final: Voronoi",
                                 gen.voronoi_vertices, voronoi_edges_ref),
             "Resultado Final: Voronoi")
    /\ gen' = [ gen EXCEPT !.voronoi_edges = voronoi_edges_ref ]
    /\ UNCHANGED << triangulation, idx, raised, rounding >>

\* run() returns, or has ended before: next() raises StopIteration.
stop_iteration ==
    /\ pc \in { "Concluido!", "Resultado Final: Voronoi", "exhausted", "raised" }
    /\ pc' = "exhausted"
    /\ UNCHANGED << triangulation, idx, raised, rounding, heap, frames, gen >>

\* next(self.bw_generator)
next_frame ==
    \/ add_point \/ find_bad \/ scan_triangle \/ bad_identified \/ form_polygon
    \/ remove_bad \/ retriangulate \/ clean \/ concluded
    \/ almost_ready \/ delaunay_done \/ start_voronoi \/ find_vertices \/ map_vertex
    \/ find_edges \/ connect_vertices \/ final_result
    \/ stop_iteration

(* The viewers: class Visualizer of the two files *)

\* run(): "while self.running" calls handle_events, which takes the events
\* of pygame.event.get().
PollEvents ==
    /\ viewer.at = "loop"
    /\ viewer.running
    /\ \E batch \in Batches : viewer' = [ viewer EXCEPT !.at = "events", !.events = batch ]
    /\ UNCHANGED << cls, points, triangulation, voronoi_edges, metrics, super_vertices,
                    idx, pc, raised, rounding, first, heap, frames, gen >>

\* One pass of "for event in pygame.event.get()".  QUIT and KEYDOWN of
\* K_ESCAPE clear self.running.  KEYDOWN of K_SPACE calls next(): the frame
\* becomes current_frame; StopIteration is caught and printed; any other
\* exception leaves handle_events and run().
handle_events ==
    /\ viewer.at = "events"
    /\ viewer.events # << >>
    /\ IF Head(viewer.events) = "K_SPACE"
       THEN /\ next_frame
            /\ viewer' = [ viewer EXCEPT
                             !.events = Tail(viewer.events),
                             !.current_frame =
                                 IF Len(frames') > Len(frames) THEN Len(frames') ELSE @,
                             !.at = IF raised' # raised THEN "crashed" ELSE @ ]
       ELSE /\ viewer' = [ viewer EXCEPT
                             !.events = Tail(viewer.events),
                             !.running = IF Head(viewer.events) \in { "QUIT", "K_ESCAPE" }
                                         THEN FALSE ELSE @ ]
            /\ UNCHANGED << triangulation, idx, pc, raised, rounding, heap, frames, gen >>
    /\ UNCHANGED << cls, points, voronoi_edges, metrics, super_vertices, first >>

\* The events are handled: draw(), and the test of "while self.running".
Draw ==
    /\ viewer.at = "events"
    /\ viewer.events = << >>
    /\ viewer' = [ viewer EXCEPT !.at = IF viewer.running THEN "loop" ELSE "stopped" ]
    /\ UNCHANGED << cls, points, triangulation, voronoi_edges, metrics, super_vertices,
                    idx, pc, raised, rounding, first, heap, frames, gen >>

ViewerNext == PollEvents \/ handle_events \/ Draw

ViewerSpec == ViewerInit /\ [][ViewerNext]_vars

(***************************************************************************)
(* Plane geometry of the input points, for stating the properties          *)
(***************************************************************************)
InputSet == { points[i] : i \in 1..Len(points) }

Orient(a, b, c) == (b.x - a.x) * (c.y - a.y) - (b.y - a.y) * (c.x - a.x)

Collinear(a, b, c) == Orient(a, b, c) = 0

\* The sign of the in-circle determinant of p against the circle through
\* a, b, c, for a, b, c in counter-clockwise order: positive inside, zero on
\* the circle, negative outside.
InCircleDet(a, b, c, p) ==
    LET ax == a.x - p.x
        ay == a.y - p.y
        bx == b.x - p.x
        by == b.y - p.y
        cx == c.x - p.x
        cy == c.y - p.y
        a2 == ax * ax + ay * ay
        b2 == bx * bx + by * by
        c2 == cx * cx + cy * cy
    IN  ax * (by * c2 - b2 * cy) - ay * (bx * c2 - b2 * cx) + a2 * (bx * cy - by * cx)

\* p lies strictly inside the circle through the non-collinear a, b, c.
StrictlyInside(a, b, c, p) ==
    /\ ~ Collinear(a, b, c)
    /\ InCircleDet(a, b, c, p) * Orient(a, b, c) > 0

Cocircular(a, b, c, d) ==
    /\ ~ Collinear(a, b, c)
    /\ InCircleDet(a, b, c, d) = 0

PairwiseDistinct == \A i, j \in 1..Len(points) : points[i] = points[j] => i = j

AllCollinear == \A a, b, c \in InputSet : Collinear(a, b, c)

NoThreeCollinear ==
    \A a, b, c \in InputSet : Cardinality({ a, b, c }) = 3 => ~ Collinear(a, b, c)

NoFourCocircular ==
    \A a, b, c, d \in InputSet : Cardinality({ a, b, c, d }) = 4 => ~ Cocircular(a, b, c, d)

\* The vertex triples of the Delaunay triangulation of the input points.
DelaunayTriples ==
    { sorted3(a, b, c) : << a, b, c >> \in
        { w \in InputSet \X InputSet \X InputSet :
            /\ ~ Collinear(w[1], w[2], w[3])
            /\ \A p \in InputSet \ { w[1], w[2], w[3] } :
                 ~ StrictlyInside(w[1], w[2], w[3], p) } }

TriangleVertices(T) == { t.vertices : t \in T }

Done == pc = "done"

(***************************************************************************)
(* Properties                                                              *)
(***************************************************************************)
\* C1: for an input of at least 3 pairwise distinct points, not all
\* collinear and no 4 of them cocircular, the triangles BowyerWatson.run()
\* leaves in triangulation are exactly the triples of input points whose
\* circumcircle has no other input point strictly inside.
C1_ExactlyDelaunay ==
    ( /\ Done
      /\ cls = "BowyerWatson"
      /\ Len(points) >= 3
      /\ PairwiseDistinct
      /\ ~ AllCollinear
      /\ NoFourCocircular )
    => TriangleVertices(triangulation) = DelaunayTriples

\* C2: after BowyerWatson.run(), no input point that is not a vertex of a
\* triangle of the final triangulation lies strictly inside that triangle's
\* circumcircle.
C2_EmptyCircumcircles ==
    (Done /\ cls = "BowyerWatson") =>
        \A t \in triangulation : \A p \in InputSet :
            (\A k \in 1..3 : t.vertices[k] # p)
            => ~ StrictlyInside(t.vertices[1], t.vertices[2], t.vertices[3], p)

\* C3: for an input of at least 3 pairwise distinct points, not all
\* collinear, every input point is a vertex of some triangle of the final
\* triangulation.
C3_EveryPointIsVertex ==
    ( /\ Done
      /\ Len(points) >= 3
      /\ PairwiseDistinct
      /\ ~ AllCollinear )
    => \A p \in InputSet : \E t \in triangulation : \E k \in 1..3 : t.vertices[k] = p

\* C4: run() on fewer than 3 points, or on points that are all collinear,
\* does not complete: it ends by raising DegenerateInputError.
C4_DegenerateInputRaises ==
    ( /\ pc \in { "done", "raised" }
      /\ (Len(points) < 3 \/ AllCollinear) )
    => (pc = "raised" /\ raised = "DegenerateInputError")

\* The unordered edges of a triangle, and the triangles of T on an edge.
EdgeSets(t) ==
    { { t.vertices[1], t.vertices[2] }, { t.vertices[2], t.vertices[3] },
      { t.vertices[1], t.vertices[3] } }

Incident(T, e) == { t \in T : e \in EdgeSets(t) }

AllEdgeSets(T) == UNION { EdgeSets(t) : t \in T }

\* The Delaunay edges with exactly two incident triangles.
InteriorEdges(T) == { e \in AllEdgeSets(T) : Cardinality(Incident(T, e)) = 2 }

\* Entry k of voronoi_edges joins the circumcenters of the triangles on e.
Joins(k, e) ==
    { voronoi_edges[k][1], voronoi_edges[k][2] }
        = { t.circumcenter : t \in Incident(triangulation, e) }

DualEdges(T) ==
    { e \in InteriorEdges(T) : \A t \in Incident(T, e) : t.circumcenter # None }

C6_NoSuperVertexLeft ==
    pc \in { "voronoi", "done" } =>
        \A t \in triangulation : \A k \in 1..3 : t.vertices[k] \notin super_vertices

\* A triangle on a super-triangle vertex was removed and a triangle is left.
C6_Witness ==
    /\ Done
    /\ triangulation # {}
    /\ super_vertices \cap InputSet = {}
    /\ Cardinality(super_vertices) = 3

\* Both instances have run to completion.
BothDone == Done /\ first # << >> /\ first[1].raised = "none"

\* C7: the class with the factors 20 and 10 and the class with the factors
\* 2 and 1 end with the same triangles on the same input.
C7_FactorsDoNotMatter ==
    (BothDone /\ first[1].points = points /\ first[1].cls # cls)
    => TriangleVertices(first[1].triangulation) = TriangleVertices(triangulation)

\* C8: for pairwise distinct input points, no 3 collinear and no 4
\* cocircular, exchanging two neighbours of the input sequence does not
\* change the final triangulation.  The inputs are closed under such
\* exchanges and every permutation is a product of them, so the final
\* triangulation is the same for every permutation of the sequence.
C8_OrderIndependent ==
    ( /\ BothDone
      /\ first[1].cls = cls
      /\ PairwiseDistinct
      /\ NoThreeCollinear
      /\ NoFourCocircular )
    => first[1].triangulation = triangulation

\* Two runs on different orders of at least 4 points in generic position
\* ended with triangles.
C8_Witness ==
    /\ BothDone
    /\ first[1].cls = cls
    /\ first[1].points # points
    /\ Len(points) >= 4
    /\ PairwiseDistinct
    /\ NoThreeCollinear
    /\ NoFourCocircular
    /\ Cardinality(triangulation) >= 2

C10_ThreePointsOneTriangle ==
    (Done /\ Len(points) = 3 /\ ~ AllCollinear)
    => /\ Cardinality(triangulation) = 1
       /\ \A t \in triangulation : { t.vertices[k] : k \in 1..3 } = InputSet
       /\ voronoi_edges = << >>

\* The corners of the square as points, and its two diagonals.
SquareCorners == { Point(Unit * s[1], Unit * s[2]) : s \in SquareSites }

SquareDiagonals ==
    { d \in SUBSET SquareCorners :
        Cardinality(d) = 2 /\ \A a, c \in d : a # c => (a.x # c.x /\ a.y # c.y) }

\* C11: on the four corners of a square, in any insertion order, run() ends
\* with exactly 2 triangles that share one diagonal of the square, and with
\* exactly 1 Voronoi edge, whose endpoints are the circumcenters of those two
\* triangles.
C11_SquareTwoTriangles ==
    (Done /\ cls = "BowyerWatson" /\ Len(points) = 4 /\ InputSet = SquareCorners)
    => /\ Cardinality(triangulation) = 2
       /\ \E t1, t2 \in triangulation :
            /\ t1 # t2
            /\ { t1.vertices[k] : k \in 1..3 } \cap { t2.vertices[k] : k \in 1..3 }
                 \in SquareDiagonals
            /\ Len(voronoi_edges) = 1
            /\ { voronoi_edges[1][1], voronoi_edges[1][2] }
                 = { t1.circumcenter, t2.circumcenter }
            /\ t1.circumcenter # None /\ t2.circumcenter # None

\* A run on the four corners of the square ended with triangles and a
\* Voronoi edge.
C11_Witness ==
    /\ Done
    /\ cls = "BowyerWatson"
    /\ Len(points) = 4
    /\ InputSet = SquareCorners
    /\ Cardinality(triangulation) = 2
    /\ voronoi_edges # << >>

\* The centre and the six points around it, as points.
Centre == Point(Unit * CentreSite[1], Unit * CentreSite[2])

HexagonPoints ==
    { Point(Unit * HexagonSites[i][1], Unit * HexagonSites[i][2]) : i \in 1..Len(HexagonSites) }

\* The Delaunay edges at the centre, and the entries of voronoi_edges that
\* join the circumcenters of the two triangles on such an edge.
CentreEdges == { e \in AllEdgeSets(triangulation) : Centre \in e }

CentreCell == { k \in 1..Len(voronoi_edges) : \E e \in CentreEdges : Joins(k, e) }

CellEnds(k) == { voronoi_edges[k][1], voronoi_edges[k][2] }

C13_DualTotalAndPure ==
    [][ pc = "voronoi" =>
          /\ pc' = "done"
          /\ raised' = "none"
          /\ triangulation' = triangulation
          /\ (InteriorEdges(triangulation) = {} => voronoi_edges' = << >>) ]_vars

\* The dual of a single triangle was derived.
C13_Witness ==
    /\ Done
    /\ cls = "BowyerWatson"
    /\ Cardinality(triangulation) = 1
    /\ InteriorEdges(triangulation) = {}
    /\ voronoi_edges = << >>
    /\ metrics.voronoi_edges_created = 0

\* The corners of the bounding box of the input.
BoundingBox ==
    LET xs == [ i \in 1..Len(points) |-> points[i].x ]
        ys == [ i \in 1..Len(points) |-> points[i].y ]
    IN  { Point(x, y) : x \in { SeqMin(xs), SeqMax(xs) }, y \in { SeqMin(ys), SeqMax(ys) } }

\* p lies strictly inside the triangle v[1], v[2], v[3].
StrictlyInTriangle(v, p) ==
    \/ Orient(v[1], v[2], p) > 0 /\ Orient(v[2], v[3], p) > 0 /\ Orient(v[3], v[1], p) > 0
    \/ Orient(v[1], v[2], p) < 0 /\ Orient(v[2], v[3], p) < 0 /\ Orient(v[3], v[1], p) < 0

\* C14: once run() has built the super-triangle of a non-empty input, every
\* corner of the bounding box of the input, and so every input point, lies
\* strictly inside it, in every class.
C14_SuperTriangleContainsInput ==
    (pc \in { "loop", "cleanup", "voronoi", "done" })
    => \A p \in BoundingBox \cup InputSet :
         StrictlyInTriangle(create_super_triangle(points, cls), p)

\* C15: in every class, a pass of the insertion loop does not raise on a
\* triangle without circumcenter and does not remove it as a bad triangle.
C15_AbsentCircumcenterTolerated ==
    [][ (pc = "loop" /\ idx < Len(points)) =>
          /\ raised' = "none"
          /\ \A t \in triangulation : t.circumcenter = None => t \in triangulation' ]_vars

\* The canonical edges of t, and the bad triangles an edge belongs to.
CanonicalEdges(t) == { triangle_edges(t)[i] : i \in 1..3 }

BadOn(bad, e) == { t \in bad : e \in CanonicalEdges(t) }

\* The loop of run() is about to insert points[idx + 1].
AtInsertion == pc = "loop" /\ idx < Len(points) /\ ~ reads_none(cls, triangulation)

\* The sets of bad triangles the next pass of the loop may find: one for
\* each outcome of its tied comparisons.
NextBad ==
    { bad_triangles(triangulation, points[idx + 1], X) :
        X \in { Y \in SUBSET Ties(triangulation, points[idx + 1]) :
                  Consistent(triangulation, points[idx + 1], Y) } }

Inserts == pc = "loop" /\ idx < Len(points) /\ idx' = idx + 1

\* The bad triangles of the pass that leads to the next state; the outcome
\* of a tied comparison is read from the outcomes the pass recorded.
BadOfPass ==
    { t \in triangulation :
        point_in_circumcircle(t, points[idx + 1],
            [ vertices |-> t.vertices, point |-> points[idx + 1], inside |-> TRUE ]
                \in rounding') }

\* The triangles (v1, v2, P) on the boundary edges of a set of bad triangles.
NewTriangles(bad, point) ==
    { Triangle(edge.v1, edge.v2, point) : edge \in polygon_boundary(bad) }

\* C17: a pass of the insertion loop for the point P removes every bad
\* triangle, adds one triangle (v1, v2, P) for each boundary edge (v1, v2),
\* and leaves every other triangle of the set as it is.
C17_InsertionStepEffect ==
    [][ Inserts =>
          LET new == NewTriangles(BadOfPass, points[idx + 1])
          IN  /\ BadOfPass \cap triangulation' = {}
              /\ new \subseteq triangulation'
              /\ Cardinality(new) = Cardinality(polygon_boundary(BadOfPass))
              /\ triangulation \ BadOfPass \subseteq triangulation'
              /\ triangulation' \subseteq (triangulation \ BadOfPass) \cup new ]_vars

\* C18: point_in_circumcircle is true exactly when the circumcenter is
\* present and the point is strictly inside the circle; for a point exactly
\* on the circle, such as a vertex of the triangle, it is never true.  (The
\* comparisons of a run on a point exactly on the circle whose two sides are
\* rounded are kept in rounding.)
C18_OnCircleIsNotInside ==
    /\ \A r \in rounding : ~ r.inside
    /\ AtInsertion =>
         \A bad \in NextBad : \A t \in bad :
            /\ t.circumcenter # None
            /\ ~ WideLess(t.circumradius_sq, dist_sq(t, points[idx + 1]))

\* The squared distance from the center of t to its vertex number k, as the
\* code computes radius_sq from vertex number 1.
VertexDistSq(t, k) == dist_sq(t, t.vertices[k])

\* C19: the circumcenter of a triangle is absent, and its circumradius_sq
\* infinite, exactly when its three vertices are collinear or not distinct;
\* otherwise the center is at the same squared distance from the three
\* vertices and circumradius_sq is that distance: also as computed, so that
\* the squared distance of a vertex is never found below circumradius_sq.
C19_CircumcircleOfThreePoints ==
    /\ \A t \in triangulation :
         /\ (t.circumcenter = None)
              <=> Collinear(t.vertices[1], t.vertices[2], t.vertices[3])
         /\ (t.circumcenter = None) <=> (t.circumradius_sq = Inf)
         /\ t.circumcenter # None =>
              \A k \in 1..3 : VertexDistSq(t, k) = t.circumradius_sq
    /\ \A r \in rounding : (\E k \in 1..3 : r.point = r.vertices[k]) => ~ r.inside

\* C20: a generator class run to exhaustion on the input of a
\* BowyerWatsonDetailed run that completed ends, and ends with the
\* triangulation of that run.
C20_FramesDoNotChangeResult ==
    ( /\ first # << >>
      /\ first[1].cls = "BowyerWatsonDetailed"
      /\ first[1].raised = "none"
      /\ first[1].points = points
      /\ cls \in { Visualizer, Triangulacao }
      /\ pc \in { "done", "raised" } )
    => /\ pc = "done"
       /\ triangulation = first[1].triangulation

\* C24: at every step of run() and in the final triangulation, every
\* canonical edge is an edge of at most 2 triangles of the triangulation.
C24_AtMostTwoTrianglesPerEdge ==
    \A e \in AllEdgeSets(triangulation) : Cardinality(Incident(triangulation, e)) <= 2

\* point lies strictly inside the circumcircle of t, in exact arithmetic.
InsideCircle(t, point) ==
    /\ t.circumcenter # None
    /\ WideLess(dist_sq(t, point), t.circumradius_sq)

\* The loop has completed idx passes and cleanup has not run yet.
AfterInsertion == pc \in { "loop", "cleanup" } /\ idx >= 1

\* C25: after each completed insertion step, no input point inserted so far
\* lies strictly inside the circumcircle of a triangle of the triangulation,
\* the triangles with super-triangle vertices included.
C25_InsertedPointsOutsideCircles ==
    AfterInsertion =>
        \A t \in triangulation : \A i \in 1..idx : ~ InsideCircle(t, points[i])

\* The first k input points are pairwise distinct.
PrefixDistinct(k) == \A i, j \in 1..k : points[i] = points[j] => i = j

\* C26: when the input has at least two distinct points, after k pairwise
\* distinct points have been inserted the triangulation holds exactly
\* 2k + 1 triangles; the insertion of a new point finds at least one bad
\* triangle, and its polygon_boundary has (number of bad triangles + 2)
\* edges.
C26_TwoTrianglesPerPoint ==
    (Cardinality(InputSet) >= 2) =>
        /\ (pc \in { "loop", "cleanup" } /\ PrefixDistinct(idx))
             => Cardinality(triangulation) = 2 * idx + 1
        /\ (AtInsertion /\ PrefixDistinct(idx + 1))
             => \A bad \in NextBad :
                  /\ bad # {}
                  /\ Cardinality(polygon_boundary(bad)) = Cardinality(bad) + 2

\* Two distinct points are inserted and the next, a new one, may find two
\* bad triangles or more.
C26_Witness ==
    /\ AtInsertion
    /\ idx >= 2
    /\ PrefixDistinct(idx + 1)
    /\ Cardinality(triangulation) = 2 * idx + 1
    /\ \E bad \in NextBad : Cardinality(bad) >= 2

\* The point the next pass inserts is equal to a point inserted before.
InsertsDuplicate == AtInsertion /\ \E i \in 1..idx : points[i] = points[idx + 1]

\* C27: the pass for a point equal to an already inserted point finds no
\* bad triangle and leaves the triangulation as it is.  (The passes for the
\* other points are then those of the input without the duplicates, which
\* ends with the same triangulation.)
C27_DuplicateIsNoOp ==
    InsertsDuplicate =>
        \A bad \in NextBad :
            /\ bad = {}
            /\ (triangulation \ bad) \cup NewTriangles(bad, points[idx + 1]) = triangulation

\* C28: when the input has at least two distinct points, no triangle
\* without circumcenter (collinear or repeated vertices) is in the
\* triangulation at any step of run().
C28_NoDegenerateTriangle ==
    (Cardinality(InputSet) >= 2) =>
        \A t \in triangulation : t.circumcenter # None

\* The six orders of three vertices.
Orders(v) ==
    { << v[1], v[2], v[3] >>, << v[1], v[3], v[2] >>, << v[2], v[1], v[3] >>,
      << v[2], v[3], v[1] >>, << v[3], v[1], v[2] >>, << v[3], v[2], v[1] >> }

\* The same three vertices, in any order.
SameVertices(v, w) == sorted3(v[1], v[2], v[3]) = sorted3(w[1], w[2], w[3])

\* C30: __eq__ and __hash__ of a Triangle read its sorted vertices only.
\* The vertices of a triangle of the triangulation, given to Triangle in any
\* order, are sorted to the vertices of that triangle; the canonical edges
\* of the triangulation between the same two vertices are one Edge value;
\* and the triangulation holds no two triangles with the same vertices.
C30_IdentityIgnoresOrder ==
    /\ \A t \in triangulation : \A w \in Orders(t.vertices) :
         sorted3(w[1], w[2], w[3]) = t.vertices
    /\ \A e1, e2 \in UNION { CanonicalEdges(t) : t \in triangulation } :
         { e1.v1, e1.v2 } = { e2.v1, e2.v2 } => e1 = e2
    /\ \A t1, t2 \in triangulation :
         SameVertices(t1.vertices, t2.vertices) => t1 = t2

\* The triangulation holds a triangle built as (v1, v2, P) with P before v1
\* in the order of the points, and a second triangle that has one of its
\* edges at another place in its vertices.
C30_Witness ==
    /\ pc = "loop"
    /\ idx >= 1
    /\ \E t1, t2 \in triangulation :
         /\ t1 # t2
         /\ t1.vertices[1] = points[idx]
         /\ \E i, j \in 1..3 : i # j /\ triangle_edges(t1)[i] = triangle_edges(t2)[j]

\* C29: a second call of run() on the same BowyerWatson instance leaves
\* triangulation, voronoi_edges and metrics as they were after the first
\* call.
C29_RunIsIdempotent ==
    (Done /\ first # << >>) =>
        /\ triangulation = first[1].triangulation
        /\ voronoi_edges = first[1].voronoi_edges
        /\ metrics = first[1].metrics

\* The fields of a frame that are sets.
FrameFields ==
    { "triangulation", "bad_triangles", "polygon_boundary", "voronoi_vertices",
      "voronoi_edges" }

\* C21: a frame that a generator has yielded is a snapshot: the sets its
\* fields refer to do not change when the generator is advanced further.
C21_FramesAreSnapshots ==
    [][ \A k \in 1..Len(frames) : \A f \in FrameFields :
          Deref(heap', frames[k][f]) = Deref(heap, frames[k][f]) ]_vars

\* The place of a frame of triangulacao.py in the pass of its point.
Rank(status) ==
    CASE status = "Adicionando Ponto" -> 1
      [] status = "Encontrando triangulos ruins" -> 2
      [] status = "Verificando circuncirculos" -> 3
      [] status = "Triangulos ruins identificados" -> 4
      [] status = "Formando o poligono" -> 5
      [] status = "Removendo triangulos" -> 6
      [] status = "Retriangulando" -> 7
      [] OTHER -> 0

\* Frame j is the frame of the given status for point i.
IsFrame(j, status, i) == frames[j].status = status /\ frames[j].active_point = i

\* C22: in the generator of triangulacao.py the frames of a point come
\* after all the frames of the point before it; within a point the frames
\* come in the order scan, bad triangles identified, boundary formed, bad
\* triangles removed, retriangulated, each of the last four once and after
\* the one before it; and the cleanup frame comes after the retriangulation
\* frame of every input point.
C22_CheckpointOrder ==
    (cls = Triangulacao) =>
        /\ \A j, k \in 1..Len(frames) :
             (j < k /\ frames[j].active_point # 0 /\ frames[k].active_point # 0) =>
                /\ frames[j].active_point <= frames[k].active_point
                /\ (frames[j].active_point = frames[k].active_point) =>
                     /\ Rank(frames[j].status) <= Rank(frames[k].status)
                     /\ (Rank(frames[j].status) = Rank(frames[k].status))
                            => Rank(frames[j].status) = 3
        /\ \A k \in 1..Len(frames) :
             /\ (frames[k].active_point >= 2) =>
                  \E j \in 1..(k - 1) :
                      IsFrame(j, "Retriangulando", frames[k].active_point - 1)
             /\ (Rank(frames[k].status) >= 4) =>
                  \E j \in 1..(k - 1) :
                      /\ frames[j].active_point = frames[k].active_point
                      /\ Rank(frames[j].status) = Rank(frames[k].status) - 1
             /\ (frames[k].status = "Limpando super-triangulo") =>
                  \A i \in 1..Len(points) :
                      \E j \in 1..(k - 1) : IsFrame(j, "Retriangulando", i)

\* The generator has yielded its last frame for an input of three points,
\* with a scan that found two bad triangles.
C22_Witness ==
    /\ cls = Triangulacao
    /\ Len(points) >= 3
    /\ frames[Len(frames)].status = "Concluido!"
    /\ \E k \in 1..Len(frames) :
         /\ frames[k].status = "Triangulos ruins identificados"
         /\ Cardinality(Deref(heap, frames[k].bad_triangles)) >= 2

\* handle_events is at a KEYDOWN of K_SPACE, and handles it.
SpacePressed ==
    /\ viewer.at = "events"
    /\ viewer.events # << >>
    /\ Head(viewer.events) = "K_SPACE"
    /\ viewer'.events = Tail(viewer.events)

\* The generator has no frame left: next() raises StopIteration.
Exhausted == pc \in { "Concluido!", "Resultado Final: Voronoi", "exhausted" }

\* C23: a SPACE key press makes the next frame of the generator the
\* current_frame; once the generator has no frame left, a SPACE key press
\* leaves current_frame at the last frame and the viewer running; and the
\* loop of the viewer ends only with self.running cleared, which QUIT and
\* ESC alone do.
C23_SpaceAdvancesOneFrame ==
    [][ /\ (SpacePressed /\ ~ Exhausted) =>
             /\ Len(frames') = Len(frames) + 1
             /\ viewer'.current_frame = viewer.current_frame + 1
             /\ viewer'.current_frame = Len(frames')
        /\ (SpacePressed /\ Exhausted) =>
             /\ frames' = frames
             /\ viewer'.current_frame = viewer.current_frame
             /\ viewer'.current_frame = Len(frames)
             /\ viewer'.running = viewer.running
             /\ viewer'.at = viewer.at
        /\ (viewer'.at \in { "stopped", "crashed" }) => ~ viewer'.running ]_vars

====
